---- MODULE Spec2Model ----
(***************************************************************************)
(* Dream synthesizer: the pipeline of backendv2.process_dream as driven by *)
(* appv2.new_dream_page with the JSON-file history, and the script         *)
(* pipeline of app.py with the SQLite history of backend.py (Spec); and    *)
(* backendv2.save_dream_to_history taken step by step by two processes     *)
(* that share the history file (SaveSpec).                                 *)
(***************************************************************************)
EXTENDS Integers, Sequences, FiniteSets, TLC

VARIABLES
    app,             \* which front-end runs: "app" (app.py) or "appv2" (appv2.py)
    pc,              \* position of the running submission
    result,          \* backendv2.py:210 result dict / app.py:57-71 script locals
    trace,           \* stage calls made by the running submission, in order
    escaped,         \* TRUE when an exception left the pipeline uncaught
    saved,           \* how the save call of the handler ended: "none" (not called),
                     \* "True" or "False" (save_dream_to_history), "None" or
                     \* "raised" (save_dream)
    file,            \* dream_history_default.json
    rows,            \* table dreams of dreams.db, in rowid order
    dream_history,   \* st.session_state.dream_history (appv2.py:62)
    current_dream,   \* st.session_state.current_dream (appv2.py:65)
    all_dreams,      \* app.py:86 all_dreams of the last completed script run
    reported,        \* TRUE when the image generator printed an error message
    appended,        \* the results handed to a save that succeeded, in order
    clock,           \* wall clock, in ticks
    nsub,            \* submissions (in SaveSpec: save calls) started so far
    env,             \* the credentials set in the environment (load_dotenv)
    calls,           \* network requests issued by the running submission
    scores,          \* the raw mapping handed to softmax by the running submission
    writers,         \* the save_dream_to_history calls of each process, step by step
    overlapped       \* TRUE once a save began while another one was under way

vars == <<app, pc, result, trace, escaped, saved, file, rows,
          dream_history, current_dream, all_dreams, reported, appended,
          clock, nsub, env, calls, scores, writers, overlapped>>

-----------------------------------------------------------------------------
(* Bounds of the model *)

MaxSubmissions == 2
MaxClock == 2
TicksPerSecond == 2

(* Program constants *)

Temperature == 10
RoundDigitsScale == 10000
HttpOk == 200

-----------------------------------------------------------------------------
(* Values *)

None == "None"

Transcripts == {"reve un", "reve deux"}
Prompts == {"a dreamy forest"}
ImageUrl == "https://img/1"

Exc(cls, msg) == [cls |-> cls, msg |-> msg]

\* Exception classes, and the ones deriving from Exception (all of them: the
\* stages raise library and built-in errors, never BaseException-only ones).
ExceptionClasses ==
    {"Exception", "OSError", "APIError", "JSONDecodeError", "AttributeError", "TypeError",
     "OverflowError", "ZeroDivisionError", "ValueError", "HTTPError",
     "ConnectionError", "KeyError", "StreamlitError", "GroqError", "MistralError"}

IsException(cls) == cls \in ExceptionClasses

\* str(e): the message the exception was built with, possibly empty.
Str(e) == e.msg

-----------------------------------------------------------------------------
(* Score normalizer *)

\* One "key": value pair of a parsed JSON object; v is the score in tenths.
Pair(k, isNum, v) == [k |-> k, isNum |-> isNum, v |-> v]

\* math.exp(a) in thousandths; 0 below the float underflow threshold.
ExpMilli(a) ==
    CASE a <= -746 -> 0
      [] a = -2 -> 135
      [] a = -1 -> 368
      [] a = 0 -> 1000
      [] a = 1 -> 2718
      [] a = 2 -> 7389

\* math.exp raises OverflowError above the float range.
ExpOverflows(a) == a >= 710

\* predicted_value * 10, the score being held in tenths.
Scaled(v) == (v * Temperature) \div 10

RECURSIVE SumExp(_)
SumExp(pairs) ==
    IF pairs = <<>> THEN 0
    ELSE ExpMilli(Scaled(Head(pairs).v)) + SumExp(Tail(pairs))

\* The error math.exp raises on the first pair it cannot take, scanning in
\* iteration order; "" when every pair is a number in range.
RECURSIVE FirstExpError(_)
FirstExpError(pairs) ==
    IF pairs = <<>> THEN ""
    ELSE IF ~Head(pairs).isNum THEN "TypeError"
    ELSE IF ExpOverflows(Scaled(Head(pairs).v)) THEN "OverflowError"
    ELSE FirstExpError(Tail(pairs))

ExpErrorMessage(cls) ==
    CASE cls = "TypeError" -> "must be real number, not str"
      [] cls = "OverflowError" -> "math range error"
      [] cls = "ZeroDivisionError" -> "float division by zero"

\* An emotion probability, as the exact ratio num/den.
Prob(k, num, den) == [k |-> k, num |-> num, den |-> den]

SoftmaxResult(raised, exc, value) == [raised |-> raised, exc |-> exc, value |-> value]

NoExc == Exc("", "")

\* backendv2.softmax: exp(10 v) / sum of exp(10 v'), unrounded.
softmaxV2(predictions) ==
    LET err == FirstExpError(predictions)
        total == SumExp(predictions)
    IN  IF predictions = <<>> THEN SoftmaxResult(FALSE, NoExc, <<>>)
        ELSE IF err # "" THEN SoftmaxResult(TRUE, Exc(err, ExpErrorMessage(err)), <<>>)
        ELSE IF total = 0
             THEN SoftmaxResult(TRUE, Exc("ZeroDivisionError",
                                         ExpErrorMessage("ZeroDivisionError")), <<>>)
        ELSE SoftmaxResult(FALSE, NoExc,
                 [i \in 1..Len(predictions) |->
                     Prob(predictions[i].k, ExpMilli(Scaled(predictions[i].v)), total)])

\* round(x, 4) of x = num/den, in ten-thousandths.
Round4(num, den) == (2 * num * RoundDigitsScale + den) \div (2 * den)

\* backend.softmax: the same quotient rounded to 4 decimal digits.
softmaxV1(preds) ==
    LET err == FirstExpError(preds)
        total == SumExp(preds)
    IN  IF err # "" THEN SoftmaxResult(TRUE, Exc(err, ExpErrorMessage(err)), <<>>)
        ELSE IF preds = <<>> THEN SoftmaxResult(FALSE, NoExc, <<>>)
        ELSE IF total = 0
             THEN SoftmaxResult(TRUE, Exc("ZeroDivisionError",
                                         ExpErrorMessage("ZeroDivisionError")), <<>>)
        ELSE SoftmaxResult(FALSE, NoExc,
                 [i \in 1..Len(preds) |->
                     Prob(preds[i].k, Round4(ExpMilli(Scaled(preds[i].v)), total),
                          RoundDigitsScale)])

\* a.num/a.den > b.num/b.den
Greater(a, b) == a.num * b.den > b.num * a.den

\* max(emotions, key=emotions.get): the first key, in iteration order, whose
\* value no later key exceeds strictly. Only called on a non-empty mapping.
RECURSIVE MaxFrom(_, _, _)
MaxFrom(emotions, i, best) ==
    IF i > Len(emotions) THEN emotions[best].k
    ELSE IF Greater(emotions[i], emotions[best]) THEN MaxFrom(emotions, i + 1, i)
    ELSE MaxFrom(emotions, i + 1, best)

\* The first key, whatever its value.
MaxKeyFirst(emotions) == emotions[1].k

MaxKey(emotions) == MaxFrom(emotions, 2, 1)

-----------------------------------------------------------------------------
(* Credentials *)

Credentials == {"GROQ_API_KEY", "MISTRAL_API_KEY", "CLIPDROP_API_KEY"}

\* os.getenv(name) is not None
HasKey(name) == name \in env

\* One outbound request: the service it goes to and whether it carries the
\* service's credential.
Call(service, key) == [service |-> service, key |-> key]

\* Groq(api_key=None): the client constructor refuses a null key.
GroqKeyError ==
    Exc("GroqError", "The api_key client option must be set either by passing api_key to the client or by setting the GROQ_API_KEY environment variable")

\* os.environ["MISTRAL_API_KEY"] with the variable unset (backend.py:53).
MistralKeyError == Exc("KeyError", "'MISTRAL_API_KEY'")

\* backend.py:75-76
ClipdropKeyError ==
    Exc("ValueError", "La cle API CLIPDROP_API_KEY est manquante dans les variables d'environnement.")

\* A chat call made with a null or unset key: what was raised and whether a
\* request went out.
KeyOutcome(exc, sent) == [exc |-> exc, sent |-> sent]

\* Mistral(api_key=os.getenv(...)) with the variable unset hands None to the
\* client library, which the source does not pin to a version: the library
\* either refuses the null key, or sends the request without an
\* Authorization header and raises on the 401 answer.
MistralNullKeyV2 ==
    { KeyOutcome(Exc("MistralError", "API key not provided"), FALSE),
      KeyOutcome(Exc("APIError", "Unauthorized"), TRUE) }

\* backend.classify_emotion reads os.environ[...] first and stops there.
MistralNullKeyV1 == { KeyOutcome(MistralKeyError, FALSE) }

-----------------------------------------------------------------------------
(* Stage outcomes: what the remote services and the file system may do *)

\* speech_to_text: open() fails, the Groq call fails, or a transcript comes back.
TranscribeErrors ==
    {Exc("OSError", "No such file or directory"), Exc("Exception", "")}

\* The chat-completion call of the classifier fails.
ChatErrors == {Exc("APIError", "Unauthorized")}

\* Content of the classifier's reply: not JSON, JSON that is no object, or an
\* object of label/score pairs.
Content(valid, isObject, pairs) == [valid |-> valid, isObject |-> isObject, pairs |-> pairs]

ClassifierContents ==
    { Content(FALSE, FALSE, <<>>),
      Content(TRUE, FALSE, <<>>),
      Content(TRUE, TRUE, <<>>),
      Content(TRUE, TRUE, <<Pair("heureux", TRUE, 2), Pair("stressant", TRUE, -1),
                            Pair("neutre", TRUE, 0)>>),
      Content(TRUE, TRUE, <<Pair("neutre", TRUE, 0), Pair("stressant", TRUE, 1),
                            Pair("heureux", TRUE, 1)>>),
      Content(TRUE, TRUE, <<Pair("heureux", FALSE, 0)>>),
      Content(TRUE, TRUE, <<Pair("heureux", TRUE, 710)>>),
      Content(TRUE, TRUE, <<Pair("heureux", TRUE, -746)>>) }

\* json.loads(content) followed by softmax (backendv2.py:120-121).
analyze_dream_emotion(content) ==
    IF ~content.valid
    THEN SoftmaxResult(TRUE, Exc("JSONDecodeError", "Expecting value: line 1 column 1 (char 0)"), <<>>)
    ELSE IF ~content.isObject
    THEN SoftmaxResult(TRUE, Exc("AttributeError", "'list' object has no attribute 'items'"), <<>>)
    ELSE softmaxV2(content.pairs)

\* json.loads(content) followed by softmax (backend.py:66-67).
classify_emotion(content) ==
    IF ~content.valid
    THEN SoftmaxResult(TRUE, Exc("JSONDecodeError", "Expecting value: line 1 column 1 (char 0)"), <<>>)
    ELSE IF ~content.isObject
    THEN SoftmaxResult(TRUE, Exc("AttributeError", "'list' object has no attribute 'items'"), <<>>)
    ELSE softmaxV1(content.pairs)

EmptyMaxError == Exc("ValueError", "max() arg is an empty sequence")

\* Reply of the prompt synthesizer: the prompt, possibly wrapped in whitespace.
PromptContents == {[body |-> p, padded |-> b] : p \in Prompts, b \in BOOLEAN}

\* str.strip() of the reply.
Strip(content) == content.body

\* Answers of the image service: status code and body.
Response(status, body) == [status |-> status, body |-> body]

HttpResponses ==
    { Response(HttpOk, "png"), Response(HttpOk, "json_url"),
      Response(202, "json_nourl"), Response(500, "error page") }

\* What requests.post does: the connection fails, or an answer comes back.
PostOutcome(post, resp) == [post |-> post, resp |-> resp]

PostOutcomes ==
    {PostOutcome("transport_error", Response(0, ""))}
        \cup {PostOutcome("response", r) : r \in HttpResponses}

\* A request that carries no x-api-key header is answered 401, if answered.
PostOutcomesWithoutKey ==
    { PostOutcome("transport_error", Response(0, "")),
      PostOutcome("response", Response(401, "unauthorized")) }

\* response.raise_for_status(): raises for 4xx and 5xx only.
RaisesForStatus(status) == status >= 400 /\ status < 600

-----------------------------------------------------------------------------
(* JSON text of an emotion mapping: a flat run of key and number tokens *)

KeyTok(k) == [tok |-> "key", s |-> k, num |-> 0, den |-> 1]
NumTok(num, den) == [tok |-> "num", s |-> "", num |-> num, den |-> den]

\* A dump that writes every number with four decimal digits.
JsonDumpsRounded(emotions) ==
    [i \in 1..(2 * Len(emotions)) |->
        IF i % 2 = 1 THEN KeyTok(emotions[(i + 1) \div 2].k)
        ELSE NumTok((2 * emotions[i \div 2].num * RoundDigitsScale + emotions[i \div 2].den)
                        \div (2 * emotions[i \div 2].den),
                    RoundDigitsScale)]

\* json.dumps(emotions): keys in insertion order, each followed by its value.
JsonDumps(emotions) ==
    [i \in 1..(2 * Len(emotions)) |->
        IF i % 2 = 1 THEN KeyTok(emotions[(i + 1) \div 2].k)
        ELSE NumTok(emotions[i \div 2].num, emotions[i \div 2].den)]

\* json.loads(text) of such a text: the pairs, in the order read.
JsonLoads(text) ==
    [i \in 1..(Len(text) \div 2) |->
        Prob(text[2 * i - 1].s, text[2 * i].num, text[2 * i].den)]

\* datetime.now().isoformat(): seconds and the sub-second part.
IsoFormat(t) == [sec |-> t \div TicksPerSecond, frac |-> t % TicksPerSecond]

-----------------------------------------------------------------------------
(* History store, document-file backend (backendv2.py) *)

\* The file: absent, a JSON array of entries, or a truncated write.
MissingFile == [kind |-> "missing", entries |-> <<>>]
JsonFile(entries) == [kind |-> "json", entries |-> entries]
PartialFile == [kind |-> "partial", entries |-> <<>>]

\* backendv2.py:270-276, the entry built from the result and the clock.
DreamEntry(dream_data, now) ==
    [timestamp |-> IsoFormat(now),
     transcription |-> dream_data.transcription,
     emotions |-> dream_data.emotions,
     dominant_emotion |-> dream_data.dominant_emotion,
     image_prompt |-> dream_data.image_prompt]

\* json.dump of one entry: the emotions become JSON text.
DumpEntry(e) == [e EXCEPT !.emotions = JsonDumps(e.emotions)]

\* json.load of one entry.
LoadEntry(t) == [t EXCEPT !.emotions = JsonLoads(t.emotions)]

DumpHistory(history) == [i \in 1..Len(history) |-> DumpEntry(history[i])]
LoadHistory(entries) == [i \in 1..Len(entries) |-> LoadEntry(entries[i])]

\* What the file system does to one call: nothing wrong, a failing read of the
\* existing file, a failing open for writing, or a write that stops midway.
SaveIo == {"ok", "read_error", "open_error", "write_error"}
LoadIo == {"ok", "read_error"}

SaveResult(ret, f) == [ret |-> ret, file |-> f]

\* The keys save_dream_to_history reads from dream_data (backendv2.py:272-275).
EntryFields == {"transcription", "emotions", "dominant_emotion", "image_prompt"}

\* No dream_data[...] of lines 272-275 raises KeyError.
HasFields(dream_data) == EntryFields \subseteq DOMAIN dream_data

\* A save that starts from an empty history instead of the file's.
save_dream_to_history_overwrite(dream_data, f, now, io) ==
    IF f.kind # "missing" /\ io = "read_error" THEN SaveResult(FALSE, f)
    ELSE IF f.kind = "partial" THEN SaveResult(FALSE, f)
    ELSE IF ~HasFields(dream_data) THEN SaveResult(FALSE, f)
    ELSE IF io = "open_error" THEN SaveResult(FALSE, f)
    ELSE IF io = "write_error" THEN SaveResult(FALSE, PartialFile)
    ELSE SaveResult(TRUE, JsonFile(DumpHistory(<<DreamEntry(dream_data, now)>>)))

\* backendv2.save_dream_to_history: read, append, rewrite; any exception is
\* caught and turned into False.
save_dream_to_history(dream_data, f, now, io) ==
    IF f.kind # "missing" /\ io = "read_error" THEN SaveResult(FALSE, f)
    ELSE IF f.kind = "partial" THEN SaveResult(FALSE, f)
    ELSE IF ~HasFields(dream_data) THEN SaveResult(FALSE, f)
    ELSE IF io = "open_error" THEN SaveResult(FALSE, f)
    ELSE IF io = "write_error" THEN SaveResult(FALSE, PartialFile)
    ELSE LET history == IF f.kind = "missing" THEN <<>> ELSE LoadHistory(f.entries)
         IN  SaveResult(TRUE,
                 JsonFile(DumpHistory(Append(history, DreamEntry(dream_data, now)))))

LoadResult(raised, value) == [raised |-> raised, value |-> value]

\* A load that opens the file without testing that it exists and catches
\* parse errors only.
load_dream_history_unguarded(f, io) ==
    IF f.kind = "missing" THEN LoadResult(TRUE, <<>>)
    ELSE IF io = "read_error" THEN LoadResult(TRUE, <<>>)
    ELSE IF f.kind = "partial" THEN LoadResult(FALSE, <<>>)
    ELSE LoadResult(FALSE, LoadHistory(f.entries))

\* backendv2.load_dream_history: the parsed file, [] when it is absent, and []
\* when reading or parsing raises.
load_dream_history(f, io) ==
    IF f.kind = "missing" THEN LoadResult(FALSE, <<>>)
    ELSE IF io = "read_error" THEN LoadResult(FALSE, <<>>)
    ELSE IF f.kind = "partial" THEN LoadResult(FALSE, <<>>)
    ELSE LoadResult(FALSE, LoadHistory(f.entries))

-----------------------------------------------------------------------------
(* History store, relational backend (backend.py) *)

\* CURRENT_TIMESTAMP: the clock at one-second resolution.
CurrentTimestamp(now) == now \div TicksPerSecond

\* backend.save_dream: one INSERT; id is the next rowid.
save_dream(table, transcription, emotion, image_url, now) ==
    Append(table,
           [id |-> Len(table) + 1,
            transcription |-> transcription,
            emotion |-> JsonDumps(emotion),
            image_url |-> image_url,
            created_at |-> CurrentTimestamp(now)])

RowDict(row) ==
    [transcription |-> row.transcription,
     emotion |-> JsonLoads(row.emotion),
     image_url |-> row.image_url,
     created_at |-> row.created_at]

Orderings(n) ==
    {p \in [1..n -> 1..n] : \A i, j \in 1..n : i # j => p[i] # p[j]}

\* backend.list_dreams: every row, ORDER BY created_at DESC. SQL leaves the
\* order of rows with equal created_at open, so every such order is a result.
list_dreams(table) ==
    {[i \in 1..Len(table) |-> RowDict(table[p[i]])] :
        p \in {q \in Orderings(Len(table)) :
                 \A i, j \in 1..Len(table) :
                     i < j => table[q[i]].created_at >= table[q[j]].created_at}}

-----------------------------------------------------------------------------
(* Image generator *)

ImageResult(raised, exc, value, printed) ==
    [raised |-> raised, exc |-> exc, value |-> value, printed |-> printed]

\* An image generator without the try/except around the call.
generate_dream_image_unguarded(o) ==
    IF o.post = "transport_error"
    THEN ImageResult(TRUE, Exc("ConnectionError", "Connection refused"), None, FALSE)
    ELSE IF o.resp.status = HttpOk THEN ImageResult(FALSE, NoExc, o.resp.body, FALSE)
    ELSE ImageResult(FALSE, NoExc, None, TRUE)

\* backendv2.generate_dream_image: the body on 200; otherwise, and on any
\* exception of the call, a printed message and None.
generate_dream_image(o) ==
    IF o.post = "transport_error" THEN ImageResult(FALSE, NoExc, None, TRUE)
    ELSE IF o.resp.status = HttpOk THEN ImageResult(FALSE, NoExc, o.resp.body, FALSE)
    ELSE ImageResult(FALSE, NoExc, None, TRUE)

\* response.json() then data.get("url") (backend.py:96-97).
UrlOfBody(body) ==
    CASE body = "json_url" -> ImageResult(FALSE, NoExc, ImageUrl, FALSE)
      [] body = "json_nourl" -> ImageResult(FALSE, NoExc, None, FALSE)
      [] OTHER -> ImageResult(TRUE, Exc("JSONDecodeError", "Expecting value: line 1 column 1 (char 0)"),
                              None, FALSE)

\* backend.generate_image: raises when the key is unset, reads the prompt
\* file, posts, prints and raises on an error status, and returns the url of
\* the JSON body.
generate_image(o, promptFileOk, api_key) ==
    IF ~api_key
    THEN ImageResult(TRUE, ClipdropKeyError, None, FALSE)
    ELSE IF ~promptFileOk
    THEN ImageResult(TRUE, Exc("OSError", "No such file or directory"), None, FALSE)
    ELSE IF o.post = "transport_error"
    THEN ImageResult(TRUE, Exc("ConnectionError", "Connection refused"), None, FALSE)
    ELSE IF o.resp.status # HttpOk /\ RaisesForStatus(o.resp.status)
    THEN ImageResult(TRUE, Exc("HTTPError", "Server Error"), None, TRUE)
    ELSE [UrlOfBody(o.resp.body) EXCEPT !.printed = (o.resp.status # HttpOk)]

-----------------------------------------------------------------------------
(* Processes that call save_dream_to_history on the same file *)

Procs == {"session A", "session B"}

\* A process outside save_dream_to_history.
IdleWriter == [at |-> "idle", dream_data |-> <<>>, history |-> <<>>, ret |-> "none"]

-----------------------------------------------------------------------------
(* Pipeline *)

\* backendv2.py:210-217
InitResult ==
    [transcription |-> "", emotions |-> <<>>, image_prompt |-> "",
     image_data |-> None, dominant_emotion |-> "", success |-> FALSE,
     hasError |-> FALSE, error |-> ""]

\* One stage call: whether it returned, the exception it raised otherwise,
\* and for the image stage what the HTTP call did.
Event(stage, exc, post, status) ==
    [stage |-> stage, ok |-> (exc = NoExc), exc |-> exc, post |-> post, status |-> status]

\* A handler naming only the errors of the remote calls and of open().
CatchesNarrow(e) == e.cls \in {"APIError", "OSError"}

\* "except Exception" of process_dream.
Catches(e) == IsException(e.cls)

\* A handler that leaves the message out of the result.
ErrorResultForgotten(res, e) == res

\* A handler that answers with a fresh result holding the message alone.
ErrorResultReset(res, e) == [InitResult EXCEPT !.hasError = TRUE, !.error = Str(e)]

\* process_dream's handler (backendv2.py:240-242).
ErrorResult(res, e) == [res EXCEPT !.hasError = TRUE, !.error = Str(e)]

\* A handler around each stage that notes the error and goes on to the next.
ThrowAndContinue(res, e) ==
    /\ pc' = CASE pc = "Transcribing" -> "Classifying"
               [] pc = "Classifying" -> "PromptSynthesis"
               [] pc = "PromptSynthesis" -> "ImageGenerating"
               [] OTHER -> "Failed"
    /\ result' = [res EXCEPT !.hasError = TRUE, !.error = Str(e)]
    /\ escaped' = escaped

\* An exception raised while the pipeline runs on res: process_dream catches
\* it; the script of app.py has no handler and the run ends with it.
Throw(res, e) ==
    IF app = "appv2" /\ Catches(e)
    THEN pc' = "Failed" /\ result' = ErrorResult(res, e) /\ escaped' = escaped
    ELSE pc' = "Crashed" /\ result' = res /\ escaped' = TRUE

Init ==
    /\ app \in {"app", "appv2"}
    /\ pc = "Idle"
    /\ result = InitResult
    /\ trace = <<>>
    /\ escaped = FALSE
    /\ saved = "none"
    /\ file = MissingFile
    /\ rows = <<>>
    /\ dream_history = load_dream_history(MissingFile, "ok").value
    /\ current_dream = <<>>
    /\ all_dreams = <<>>
    /\ reported = FALSE
    /\ appended = <<>>
    /\ clock = 0
    /\ nsub = 0
    /\ env \in SUBSET Credentials
    /\ calls = {}
    /\ scores = <<>>
    /\ writers = [p \in Procs |-> IdleWriter]
    /\ overlapped = FALSE

\* The button is pressed with an audio file (appv2.py:216, app.py:48).
Submit ==
    /\ pc = "Idle"
    /\ nsub < MaxSubmissions
    /\ pc' = "Transcribing"
    /\ result' = InitResult
    /\ trace' = <<>>
    /\ escaped' = FALSE
    /\ saved' = "none"
    /\ reported' = FALSE
    /\ nsub' = nsub + 1
    /\ calls' = {}
    /\ scores' = <<>>
    /\ UNCHANGED <<env, writers, overlapped, app, file, rows, dream_history, current_dream,
                   all_dreams, appended, clock>>

\* speech_to_text (backendv2.py:222, app.py:57): the client is built from the
\* key, the audio file is opened, the request is made.
Transcribe ==
    /\ pc = "Transcribing"
    /\ IF ~HasKey("GROQ_API_KEY")
       THEN /\ Throw(result, GroqKeyError)
            /\ trace' = Append(trace, Event("transcription", GroqKeyError, "none", 0))
            /\ calls' = calls
       ELSE \/ \E t \in Transcripts :
                 /\ result' = [result EXCEPT !.transcription = t]
                 /\ trace' = Append(trace, Event("transcription", NoExc, "none", 0))
                 /\ calls' = calls \cup {Call("groq", TRUE)}
                 /\ pc' = "Classifying"
                 /\ escaped' = escaped
            \/ \E e \in TranscribeErrors :
                 /\ Throw(result, e)
                 /\ trace' = Append(trace, Event("transcription", e, "none", 0))
                 /\ calls' = IF e.cls = "OSError" THEN calls
                             ELSE calls \cup {Call("groq", TRUE)}
    /\ UNCHANGED <<env, writers, overlapped, app, saved, file, rows, dream_history,
                   current_dream, all_dreams, reported, appended, clock, nsub, scores>>

Classifier(content) ==
    IF app = "appv2" THEN analyze_dream_emotion(content) ELSE classify_emotion(content)

AfterClassifying == IF app = "appv2" THEN "PromptSynthesis" ELSE "ImageGenerating"

\* What the chat client does when MISTRAL_API_KEY is unset (backendv2.py:89
\* and 134, backend.py:53).
MistralNullKey == IF app = "appv2" THEN MistralNullKeyV2 ELSE MistralNullKeyV1

\* The classifier and the max over its result (backendv2.py:226-227,
\* app.py:63-64).
Classify ==
    /\ pc = "Classifying"
    /\ IF ~HasKey("MISTRAL_API_KEY")
       THEN \E o \in MistralNullKey :
              /\ Throw(result, o.exc)
              /\ trace' = Append(trace, Event("classification", o.exc, "none", 0))
              /\ calls' = IF o.sent THEN calls \cup {Call("mistral", FALSE)} ELSE calls
              /\ scores' = scores
       ELSE /\ calls' = calls \cup {Call("mistral", TRUE)}
            /\ \/ \E e \in ChatErrors :
                    /\ Throw(result, e)
                    /\ trace' = Append(trace, Event("classification", e, "none", 0))
                    /\ scores' = scores
               \/ \E c \in ClassifierContents :
                    LET r == Classifier(c)
                        res1 == [result EXCEPT !.emotions = r.value]
                    IN  /\ scores' = IF c.valid /\ c.isObject THEN c.pairs ELSE scores
                        /\ IF r.raised
                           THEN /\ Throw(result, r.exc)
                                /\ trace' = Append(trace, Event("classification", r.exc, "none", 0))
                           ELSE /\ trace' = Append(trace, Event("classification", NoExc, "none", 0))
                                /\ IF r.value = <<>>
                                   THEN Throw(res1, EmptyMaxError)
                                   ELSE /\ result' = [res1 EXCEPT !.dominant_emotion = MaxKey(r.value)]
                                        /\ pc' = AfterClassifying
                                        /\ escaped' = escaped
    /\ UNCHANGED <<env, writers, overlapped, app, saved, file, rows, dream_history,
                   current_dream, all_dreams, reported, appended, clock, nsub>>

\* generate_dream_image_prompt (backendv2.py:231).
SynthesizePrompt ==
    /\ pc = "PromptSynthesis"
    /\ IF ~HasKey("MISTRAL_API_KEY")
       THEN \E o \in MistralNullKey :
              /\ Throw(result, o.exc)
              /\ trace' = Append(trace, Event("prompt", o.exc, "none", 0))
              /\ calls' = IF o.sent THEN calls \cup {Call("mistral", FALSE)} ELSE calls
       ELSE /\ calls' = calls \cup {Call("mistral", TRUE)}
            /\ \/ \E e \in ChatErrors :
                    /\ Throw(result, e)
                    /\ trace' = Append(trace, Event("prompt", e, "none", 0))
               \/ \E c \in PromptContents :
                    /\ result' = [result EXCEPT !.image_prompt = Strip(c)]
                    /\ trace' = Append(trace, Event("prompt", NoExc, "none", 0))
                    /\ pc' = "ImageGenerating"
                    /\ escaped' = escaped
    /\ UNCHANGED <<env, writers, overlapped, app, saved, file, rows, dream_history,
                   current_dream, all_dreams, reported, appended, clock, nsub, scores>>

\* generate_dream_image and the success flag (backendv2.py:235-237). The
\* request is posted whether or not the key is set: requests leaves a header
\* whose value is None out of the request.
GenerateImageV2 ==
    /\ pc = "ImageGenerating"
    /\ app = "appv2"
    /\ \E o \in IF HasKey("CLIPDROP_API_KEY") THEN PostOutcomes ELSE PostOutcomesWithoutKey :
        LET r == generate_dream_image(o)
        IN  /\ trace' = Append(trace, Event("image", r.exc, o.post, o.resp.status))
            /\ calls' = calls \cup {Call("clipdrop", HasKey("CLIPDROP_API_KEY"))}
            /\ reported' = r.printed
            /\ IF r.raised
               THEN Throw(result, r.exc)
               ELSE /\ result' = [result EXCEPT !.image_data = r.value, !.success = TRUE]
                    /\ pc' = "Done"
                    /\ escaped' = escaped
    /\ UNCHANGED <<env, writers, overlapped, app, saved, file, rows, dream_history,
                   current_dream, all_dreams, appended, clock, nsub, scores>>

\* generate_image (app.py:71).
GenerateImageV1 ==
    /\ pc = "ImageGenerating"
    /\ app = "app"
    /\ \E o \in PostOutcomes, promptFileOk \in BOOLEAN :
        LET r == generate_image(o, promptFileOk, HasKey("CLIPDROP_API_KEY"))
            posted == promptFileOk /\ HasKey("CLIPDROP_API_KEY")
        IN  /\ trace' = Append(trace, Event("image", r.exc,
                                            IF posted THEN o.post ELSE "none",
                                            IF posted THEN o.resp.status ELSE 0))
            /\ calls' = IF posted THEN calls \cup {Call("clipdrop", TRUE)} ELSE calls
            /\ reported' = r.printed
            /\ IF r.raised
               THEN Throw(result, r.exc)
               ELSE /\ result' = [result EXCEPT !.image_data = r.value]
                    /\ pc' = "Done"
                    /\ escaped' = escaped
    /\ UNCHANGED <<env, writers, overlapped, app, saved, file, rows, dream_history,
                   current_dream, all_dreams, appended, clock, nsub, scores>>

BoolStr(b) == IF b THEN "True" ELSE "False"

\* The fields of a result that the history is to give back.
Given(res) ==
    [transcription |-> res.transcription, emotions |-> res.emotions,
     dominant_emotion |-> res.dominant_emotion]

\* The handler without its test of the success flag.
SucceededAlways == pc # "Crashed"

\* if result["success"] (appv2.py:228); no result exists when process_dream
\* itself ended with an exception.
Succeeded == pc # "Crashed" /\ result.success

\* The rest of the button handler of appv2.py (lines 228-243): keep and save
\* a successful result, show the error of a failed one. save_to_history is
\* the checkbox of line 213, an input of the run read at line 232 only.
HandleV2 ==
    /\ app = "appv2"
    /\ pc \in {"Done", "Failed", "Crashed"}
    /\ IF Succeeded
       THEN /\ current_dream' = <<result>>
            /\ \E save_to_history \in BOOLEAN :
                 IF save_to_history
                 THEN \E io \in SaveIo, lio \in LoadIo :
                        LET s == save_dream_to_history(result, file, clock, io)
                        IN  /\ file' = s.file
                            /\ saved' = BoolStr(s.ret)
                            /\ appended' = IF s.ret THEN Append(appended, Given(result))
                                           ELSE appended
                            /\ dream_history' = load_dream_history(s.file, lio).value
                 ELSE UNCHANGED <<file, saved, dream_history, appended>>
       ELSE UNCHANGED <<current_dream, file, saved, dream_history, appended>>
    /\ pc' = "Idle"
    /\ result' = InitResult
    /\ trace' = <<>>
    /\ calls' = {}
    /\ scores' = <<>>
    /\ UNCHANGED <<env, writers, overlapped, app, escaped, rows, all_dreams, reported,
                   clock, nsub>>

\* The rest of the script of app.py (lines 73-86): show the image, save the
\* dream, list the history. A run ended by an exception does none of it.
\* save_dream has no return statement and no handler: it gives None back, or
\* the error of sqlite3 leaves it.
HandleV1 ==
    /\ app = "app"
    /\ pc \in {"Done", "Crashed"}
    /\ IF pc = "Done"
       THEN \E shown \in BOOLEAN, db \in {"ok", "error"} :
              IF result.image_data = None /\ ~shown
              THEN /\ escaped' = TRUE
                   /\ saved' = "none"
                   /\ UNCHANGED <<rows, all_dreams, appended>>
              ELSE IF db = "error"
              THEN /\ escaped' = TRUE
                   /\ saved' = "raised"
                   /\ UNCHANGED <<rows, all_dreams, appended>>
              ELSE /\ rows' = save_dream(rows, result.transcription, result.emotions,
                                         result.image_data, clock)
                   /\ saved' = "None"
                   /\ appended' = Append(appended, Given(result))
                   /\ all_dreams' \in list_dreams(rows')
                   /\ escaped' = escaped
       ELSE UNCHANGED <<rows, all_dreams, escaped, appended, saved>>
    /\ pc' = "Idle"
    /\ result' = InitResult
    /\ trace' = <<>>
    /\ calls' = {}
    /\ scores' = <<>>
    /\ UNCHANGED <<env, writers, overlapped, app, file, dream_history, current_dream,
                   reported, clock, nsub>>

\* A new browser session of appv2.py (lines 61-65).
NewSession ==
    /\ app = "appv2"
    /\ pc = "Idle"
    /\ \E lio \in LoadIo : dream_history' = load_dream_history(file, lio).value
    /\ current_dream' = <<>>
    /\ UNCHANGED <<env, writers, overlapped, app, pc, result, trace, escaped, saved, file,
                   rows, all_dreams, reported, appended, clock, nsub, calls, scores>>

\* A run of the script of app.py with the button not pressed (lines 84-86).
Rerender ==
    /\ app = "app"
    /\ pc = "Idle"
    /\ all_dreams' \in list_dreams(rows)
    /\ UNCHANGED <<env, writers, overlapped, app, pc, result, trace, escaped, saved, file,
                   rows, dream_history, current_dream, reported, appended, clock, nsub,
                   calls, scores>>

\* Time passes between submissions.
Tick ==
    /\ pc = "Idle"
    /\ clock < MaxClock
    /\ clock' = clock + 1
    /\ UNCHANGED <<env, writers, overlapped, app, pc, result, trace, escaped, saved, file,
                   rows, dream_history, current_dream, all_dreams, reported, appended,
                   nsub, calls, scores>>

Next ==
    \/ Submit
    \/ Transcribe
    \/ Classify
    \/ SynthesizePrompt
    \/ GenerateImageV2
    \/ GenerateImageV1
    \/ HandleV2
    \/ HandleV1
    \/ NewSession
    \/ Rerender
    \/ Tick

Spec == Init /\ [][Next]_vars

-----------------------------------------------------------------------------
(* save_dream_to_history step by step, called by several processes that     *)
(* share dream_history_default.json (two browser sessions of appv2.py)      *)

\* A distribution as process_dream stores it.
SampleEmotions ==
    softmaxV2(<<Pair("heureux", TRUE, 2), Pair("stressant", TRUE, -1),
                Pair("neutre", TRUE, 0)>>).value

\* The dream_data the callers pass: results of successful runs, and one
\* record that lacks keys the entry is built from.
SavedDreams ==
    {[InitResult EXCEPT !.transcription = t, !.emotions = SampleEmotions,
                        !.dominant_emotion = MaxKey(SampleEmotions),
                        !.image_prompt = "a dreamy forest", !.success = TRUE] :
        t \in Transcripts}
    \cup {[transcription |-> "reve un", emotions |-> SampleEmotions]}

PipelineVars ==
    <<app, pc, result, trace, escaped, saved, rows, dream_history, current_dream,
      all_dreams, reported, env, calls, scores>>

\* The call returns ret (backendv2.py:284 and 288).
Returning(p, ret) == [writers EXCEPT ![p] = [IdleWriter EXCEPT !.ret = BoolStr(ret)]]

\* A history that holds the new entry alone.
AppendedAlone(history, dream_entry) == <<dream_entry>>

\* history.append(dream_entry) (backendv2.py:278)
Appended(history, dream_entry) == Append(history, dream_entry)

\* A process enters save_dream_to_history (backendv2.py:247).
SaveCall(p) ==
    /\ writers[p].at = "idle"
    /\ nsub < MaxSubmissions
    /\ \E d \in SavedDreams :
         writers' = [writers EXCEPT ![p] = [at |-> "read", dream_data |-> d,
                                            history |-> <<>>, ret |-> "none"]]
    /\ overlapped' = (overlapped \/ \E q \in Procs \ {p} : writers[q].at # "idle")
    /\ nsub' = nsub + 1
    /\ UNCHANGED <<PipelineVars, file, appended, clock>>

\* The existing history is loaded (backendv2.py:262-266); a failing read and
\* a text that is no JSON raise, and the call returns False.
SaveRead(p) ==
    /\ writers[p].at = "read"
    /\ IF file.kind = "missing"
       THEN writers' = [writers EXCEPT ![p].at = "build", ![p].history = <<>>]
       ELSE \E io \in LoadIo :
              IF io = "read_error" \/ file.kind = "partial"
              THEN writers' = Returning(p, FALSE)
              ELSE writers' = [writers EXCEPT ![p].at = "build",
                                              ![p].history = LoadHistory(file.entries)]
    /\ UNCHANGED <<PipelineVars, file, appended, clock, nsub, overlapped>>

\* The entry is built with the time of the clock and appended to the loaded
\* history (backendv2.py:269-278); a missing key raises KeyError.
SaveBuild(p) ==
    /\ writers[p].at = "build"
    /\ IF ~HasFields(writers[p].dream_data)
       THEN writers' = Returning(p, FALSE)
       ELSE writers' = [writers EXCEPT
                          ![p].at = "open",
                          ![p].history = Appended(writers[p].history,
                                                  DreamEntry(writers[p].dream_data, clock))]
    /\ UNCHANGED <<PipelineVars, file, appended, clock, nsub, overlapped>>

\* open(history_file, "w") (backendv2.py:281): the file is emptied, unless
\* the open fails.
SaveOpen(p) ==
    /\ writers[p].at = "open"
    /\ \E io \in {"ok", "open_error"} :
         IF io = "open_error"
         THEN writers' = Returning(p, FALSE) /\ file' = file
         ELSE writers' = [writers EXCEPT ![p].at = "dump"] /\ file' = PartialFile
    /\ UNCHANGED <<PipelineVars, appended, clock, nsub, overlapped>>

\* json.dump and the close of the file (backendv2.py:282-284). The text goes
\* to the start of the file: over a text that another process wrote since
\* this one opened the file, it leaves that text's tail behind when it is
\* the shorter of the two, which the lengths of the texts decide.
SaveDump(p) ==
    /\ writers[p].at = "dump"
    /\ \E io \in {"ok", "write_error"} :
         IF io = "write_error"
         THEN /\ writers' = Returning(p, FALSE)
              /\ file' = PartialFile
              /\ appended' = appended
         ELSE /\ writers' = Returning(p, TRUE)
              /\ \/ file' = JsonFile(DumpHistory(writers[p].history))
                 \/ file.kind = "json" /\ file' = PartialFile
              /\ appended' = Append(appended, Given(writers[p].dream_data))
    /\ UNCHANGED <<PipelineVars, clock, nsub, overlapped>>

InitSave == Init /\ app = "appv2" /\ env = Credentials

NextSave ==
    \/ \E p \in Procs : SaveCall(p)
    \/ \E p \in Procs : SaveRead(p)
    \/ \E p \in Procs : SaveBuild(p)
    \/ \E p \in Procs : SaveOpen(p)
    \/ \E p \in Procs : SaveDump(p)
    \/ Tick

SaveSpec == InitSave /\ [][NextSave]_vars

-----------------------------------------------------------------------------
(* Properties of the orchestrator *)

Last(seq) == seq[Len(seq)]

StageOrder == <<"transcription", "classification", "prompt", "image">>

\* A stage of the running submission has raised.
StageRaised == trace # <<>> /\ ~Last(trace).ok

\* process_dream has returned its result to the handler.
Returned == pc \in {"Done", "Failed"}

\* C1: whatever the stages do, process_dream lets no exception out: the run
\* never ends with an exception, a started run can always take its next
\* step, and the result it returns carries a success
\* flag that is true exactly when every stage returned, with an error
\* message recorded when it is false.
C1_NeverRaises ==
    app = "appv2" =>
        /\ pc # "Crashed"
        /\ ~escaped
        /\ pc # "Idle" => ENABLED Next
        /\ Returned => /\ result.success \in BOOLEAN
                       /\ result.success = (pc = "Done")
                       /\ ~result.success => result.hasError

\* A stage raised an error that is no API error and process_dream returned.
C1_Witness ==
    /\ app = "appv2"
    /\ pc = "Failed"
    /\ StageRaised
    /\ Last(trace).exc.cls = "JSONDecodeError"
    /\ ~result.success

\* C2: the stages are called at most once each and in the fixed order, each
\* only after every earlier one returned; a raising stage sends the
\* orchestrator to Failed, and from Failed no stage is called any more.
C2_StagesInOrderStopAtFirstFailure ==
    /\ [](app = "appv2" =>
            /\ Len(trace) <= Len(StageOrder)
            /\ \A i \in 1..Len(trace) : trace[i].stage = StageOrder[i]
            /\ \A i \in 1..(Len(trace) - 1) : trace[i].ok
            /\ StageRaised => pc = "Failed")
    /\ [][(app = "appv2" /\ pc = "Failed") => (pc' = "Idle" /\ trace' = <<>>)]_vars

\* Transcription raised: it is the only stage that was called.
C2_Witness ==
    /\ app = "appv2"
    /\ pc = "Failed"
    /\ Len(trace) = 1
    /\ ~trace[1].ok

AllStagesReturned ==
    /\ \A i \in 1..Len(trace) : trace[i].ok
    /\ Len(trace) = IF app = "appv2" THEN 4 ELSE 3
    /\ app = "appv2" => result.success

\* C4: the history store changes only in the handler of a submission whose
\* stages all returned (success); a submission that failed at any stage
\* leaves the file and the table as they were.
C4_SavedOnlyOnSuccess ==
    [][(file' # file \/ rows' # rows) => (pc = "Done" /\ AllStagesReturned)]_vars

\* The classifier answered invalid JSON while the history holds a record.
C4_Witness ==
    /\ app = "appv2"
    /\ pc = "Failed"
    /\ Len(trace) = 2
    /\ trace[2].exc.cls = "JSONDecodeError"
    /\ result.error = "Expecting value: line 1 column 1 (char 0)"
    /\ file.kind = "json"
    /\ Len(file.entries) = 1

\* dominant is a key of emotions and no value exceeds its value.
IsArgMax(emotions, dominant) ==
    \E i \in 1..Len(emotions) :
        /\ emotions[i].k = dominant
        /\ \A j \in 1..Len(emotions) : ~Greater(emotions[j], emotions[i])

\* C5: a result with success true has a non-empty emotions mapping and its
\* dominant_emotion is a key of it holding the maximum value; the same
\* holds of the result kept as current_dream.
C5_DominantIsMax ==
    /\ (app = "appv2" /\ result.success) =>
          /\ result.emotions # <<>>
          /\ IsArgMax(result.emotions, result.dominant_emotion)
    /\ \A i \in 1..Len(current_dream) :
          /\ current_dream[i].emotions # <<>>
          /\ IsArgMax(current_dream[i].emotions, current_dream[i].dominant_emotion)

\* A successful result whose maximum is shared by two keys, neither the first.
C5_Witness ==
    /\ app = "appv2"
    /\ pc = "Done"
    /\ result.success
    /\ result.emotions[1].k = "neutre"
    /\ result.dominant_emotion = "stressant"

-----------------------------------------------------------------------------
(* Properties of the history store *)

RECURSIVE Reverse(_)
Reverse(seq) == IF seq = <<>> THEN <<>> ELSE Append(Reverse(Tail(seq)), Head(seq))

\* What a listed record gives back of the result it was saved from.
ListedV2(h) ==
    [i \in 1..Len(h) |->
        [transcription |-> h[i].transcription, emotions |-> h[i].emotions,
         dominant_emotion |-> h[i].dominant_emotion]]

\* The same for a record of list_dreams, the dominant emotion re-derived as
\* app.py:92 does.
ListedV1(l) ==
    [i \in 1..Len(l) |->
        [transcription |-> l[i].transcription, emotions |-> l[i].emotion,
         dominant_emotion |-> MaxKey(l[i].emotion)]]

\* a.num/a.den = b.num/b.den
SameValue(a, b) == a.num * b.den = b.num * a.den

SameMapping(x, y) ==
    /\ Len(x) = Len(y)
    /\ \A i \in 1..Len(x) : x[i].k = y[i].k /\ SameValue(x[i], y[i])

Matches(a, b) ==
    /\ a.transcription = b.transcription
    /\ SameMapping(a.emotions, b.emotions)
    /\ a.dominant_emotion = b.dominant_emotion

\* The records a readable file holds.
Records(f) == IF f.kind = "json" THEN LoadHistory(f.entries) ELSE <<>>

\* C6 as claimed: each backend lists every saved record, the most recently
\* appended first.
C6_Original ==
    /\ (app = "appv2" /\ file.kind = "json") =>
          ListedV2(load_dream_history(file, "ok").value) = Reverse(appended)
    /\ app = "app" => \A l \in list_dreams(rows) : ListedV1(l) = Reverse(appended)

\* C7: reading a store that was never written or is empty gives the empty
\* sequence and raises nothing, for the file (whatever the read does) and
\* for the table; the history cached by the session is then empty.
C7_EmptyStoreReadsEmpty ==
    /\ (file.kind = "missing" \/ (file.kind = "json" /\ file.entries = <<>>)) =>
          /\ \A lio \in LoadIo : load_dream_history(file, lio) = LoadResult(FALSE, <<>>)
          /\ app = "appv2" => dream_history = <<>>
    /\ rows = <<>> => list_dreams(rows) = {<<>>}

\* A save was tried and failed, and the history was read back from the file
\* that still does not exist.
C7_Witness ==
    /\ app = "appv2"
    /\ pc = "Idle"
    /\ saved = "False"
    /\ file.kind = "missing"
    /\ dream_history = <<>>

\* C8: the records read back from the store carry the transcription, the
\* emotions and the dominant emotion of the results they were saved from:
\* the file's in append order, the table's rows by rowid, and every listing
\* of the table holds exactly those.
C8_RoundTrip ==
    /\ (app = "appv2" /\ file.kind = "json") =>
          LET h == ListedV2(load_dream_history(file, "ok").value)
          IN  /\ Len(h) = Len(appended)
              /\ \A i \in 1..Len(h) : Matches(h[i], appended[i])
    /\ app = "app" =>
          /\ Len(rows) = Len(appended)
          /\ \A i \in 1..Len(rows) : Matches(ListedV1(<<RowDict(rows[i])>>)[1], appended[i])
          /\ \A l \in list_dreams(rows) :
                /\ Len(l) = Len(appended)
                /\ \E p \in Orderings(Len(l)) :
                      \A i \in 1..Len(l) : Matches(ListedV1(l)[i], appended[p[i]])

\* Two dreams were saved to the file and read back into the session.
C8_Witness ==
    /\ app = "appv2"
    /\ file.kind = "json"
    /\ Len(appended) = 2
    /\ Len(dream_history) = 2
    /\ dream_history[2].dominant_emotion = "stressant"
    /\ dream_history[1].dominant_emotion = "heureux"

C10_Original ==
    (/\ trace # <<>>
     /\ Last(trace).stage = "image"
     /\ \/ Last(trace).post = "transport_error"
        \/ Last(trace).post = "response" /\ Last(trace).status # HttpOk)
    => /\ Last(trace).ok
       /\ reported
       /\ pc = "Done"
       /\ result.image_data = None
       /\ result.transcription # ""
       /\ result.emotions # <<>>

-----------------------------------------------------------------------------
(* Properties of the save operation *)

\* C11 as claimed: each backend's save operation answers with a boolean and
\* never raises: false when the store could not be read or written, true
\* exactly when the record was added to the store.
C11_Original ==
    [][(saved' # saved /\ saved' # "none") =>
          /\ saved' \in {"True", "False"}
          /\ app = "appv2" =>
                (saved' = "True" <=>
                    /\ file'.kind = "json"
                    /\ Records(file') = Append(Records(file), DreamEntry(result, clock)))
          /\ app = "app" => (saved' = "True" <=> rows' # rows)]_vars

-----------------------------------------------------------------------------
(* Properties of the returned result *)

\* C15: when stage k of process_dream raises, the returned result holds what
\* the stages before k produced (the transcript after stage 1, the
\* classifier's distribution and its dominant emotion after stage 2) and
\* the initial "", {} and None for stage k and every later stage; the
\* raising step itself alters none of these fields.
C15_PartialResultsKept ==
    /\ [](( app = "appv2" /\ pc = "Failed") =>
            /\ Len(trace) = 1 => result.transcription = ""
            /\ Len(trace) >= 2 => result.transcription \in Transcripts
            /\ Len(trace) <= 2 => (result.emotions = <<>> /\ result.dominant_emotion = "")
            /\ Len(trace) = 3 =>
                  /\ result.emotions # <<>>
                  /\ result.emotions = softmaxV2(scores).value
                  /\ IsArgMax(result.emotions, result.dominant_emotion)
            /\ result.image_prompt = ""
            /\ result.image_data = None)
    /\ [][(app = "appv2" /\ pc # "Failed" /\ pc' = "Failed") =>
            [result' EXCEPT !.hasError = FALSE, !.error = ""] = result]_vars

\* The classifier's reply was no JSON: the transcript is in the result.
C15_Witness ==
    /\ app = "appv2"
    /\ pc = "Failed"
    /\ Len(trace) = 2
    /\ trace[2].exc.cls = "JSONDecodeError"
    /\ result.transcription = "reve deux"
    /\ result.emotions = <<>>
    /\ result.image_prompt = ""

\* The image stage of the running submission got no image from the service.
ImageServiceFailed ==
    /\ Len(trace) = 4
    /\ \/ trace[4].post = "transport_error"
       \/ trace[4].post = "response" /\ trace[4].status # HttpOk

\* C17: in backendv2 the image stage never raises and never leads to Failed:
\* once transcription, classification and prompt synthesis returned, the
\* next step ends in Done with success true, with a null image when the
\* service failed; the handler keeps and saves such a result as it does
\* any successful one: the save of it succeeds when the file can be read
\* and written, and a save that succeeded left its entry last in the file.
C17_ImageFailureNeverFails ==
    /\ [](app = "appv2" =>
            /\ Len(trace) = 4 => (trace[4].ok /\ pc = "Done" /\ result.success)
            /\ pc = "Failed" => Last(trace).stage # "image"
            /\ ImageServiceFailed => result.image_data = None
            /\ (pc = "Done" /\ result.image_data = None /\ file.kind # "partial") =>
                  save_dream_to_history(result, file, clock, "ok").ret)
    /\ [][(app = "appv2" /\ pc = "ImageGenerating") =>
            (pc' = "Done" /\ result'.success)]_vars
    /\ [][(app = "appv2" /\ pc = "Done") =>
            /\ current_dream' = <<result>>
            /\ saved' = "True" =>
                  /\ file'.kind = "json"
                  /\ Last(Records(file')) = DreamEntry(result, clock)]_vars

\* A result without image was kept as current_dream and saved to the file.
C17_Witness ==
    /\ app = "appv2"
    /\ pc = "Idle"
    /\ saved = "True"
    /\ Len(current_dream) = 1
    /\ current_dream[1].success
    /\ current_dream[1].image_data = None
    /\ Len(Records(file)) = 1
    /\ Records(file)[1].transcription = current_dream[1].transcription
    /\ Records(file)[1].image_prompt = current_dream[1].image_prompt

-----------------------------------------------------------------------------
(* Properties of the session state *)

\* C18: in a session of appv2, current_dream is None or a result with
\* success true. From the press of the button to the end of the handler, a
\* submission that fails changes neither current_dream, nor the cached
\* dream_history, nor the history file: they change only in the handler of
\* a successful submission or when a new session starts.
C18_FailedSubmissionChangesNothing ==
    /\ [](app = "appv2" =>
            /\ Len(current_dream) <= 1
            /\ \A i \in 1..Len(current_dream) : current_dream[i].success
            /\ pc = "Done" => result.success
            /\ pc = "Failed" => ~result.success)
    /\ [][(app = "appv2" /\ pc \notin {"Idle", "Done"}) =>
            UNCHANGED <<current_dream, dream_history, file>>]_vars
    /\ [][(app = "appv2" /\ pc = "Idle" /\ pc' # "Idle") =>
            UNCHANGED <<current_dream, dream_history, file>>]_vars

\* A submission failed while the session shows an earlier successful result.
C18_Witness ==
    /\ app = "appv2"
    /\ pc = "Failed"
    /\ ~result.success
    /\ Len(current_dream) = 1
    /\ current_dream[1].success
    /\ current_dream[1].transcription # ""
    /\ Len(dream_history) = 1
    /\ file.kind = "json"

-----------------------------------------------------------------------------
(* Properties of the normalizer *)

\* Every raw score is a number.
Numeric(pairs) == \A i \in 1..Len(pairs) : pairs[i].isNum

\* The softmax of the front-end that runs.
Softmax(pairs) == IF app = "appv2" THEN softmaxV2(pairs) ELSE softmaxV1(pairs)

RECURSIVE SumNum(_)
SumNum(value) == IF value = <<>> THEN 0 ELSE Head(value).num + SumNum(Tail(value))

\* C14 as claimed: for any non-empty mapping of raw scores, softmax (rounded
\* or not) raises nothing and returns a mapping with the same labels whose
\* values lie in [0,1] and sum to 1 within 0.001; the classification stage
\* that called it returns that mapping.
C14_Original ==
    (scores # <<>> /\ Numeric(scores)) =>
        LET r == Softmax(scores)
        IN  /\ ~r.raised
            /\ trace[2].ok
            /\ result.emotions = r.value
            /\ Len(r.value) = Len(scores)
            /\ \A i \in 1..Len(scores) :
                  /\ r.value[i].k = scores[i].k
                  /\ r.value[i].den = r.value[1].den
                  /\ 0 <= r.value[i].num
                  /\ r.value[i].num <= r.value[i].den
            /\ 1000 * (SumNum(r.value) - r.value[1].den) <= r.value[1].den
            /\ 1000 * (r.value[1].den - SumNum(r.value)) <= r.value[1].den

-----------------------------------------------------------------------------
(* Properties of concurrent and sequential saves *)

\* Every call made so far has returned True.
AllReturnedTrue ==
    /\ \A p \in Procs : writers[p].at = "idle"
    /\ Len(appended) = nsub

\* The file holds exactly the records handed to the calls that returned
\* True, in the order of their return.
HoldsAllAppended ==
    /\ appended = <<>> => file.kind = "missing"
    /\ appended # <<>> =>
          /\ file.kind = "json"
          /\ Len(Records(file)) = Len(appended)
          /\ \A i \in 1..Len(appended) : Matches(ListedV2(Records(file))[i], appended[i])

\* C13: save_dream_to_history calls that run one after the other and all
\* return True lose no write: the file then holds every record, in call
\* order. Calls that overlap can both return True; a file they leave
\* readable ends with the record of the call that returned last, and may
\* lack the other's (the witness is that state).
C13_LostWriteOnlyWhenConcurrent ==
    /\ (AllReturnedTrue /\ ~overlapped) => HoldsAllAppended
    /\ (AllReturnedTrue /\ appended # <<>> /\ file.kind = "json") =>
          /\ Len(Records(file)) \in 1..Len(appended)
          /\ Matches(ListedV2(Records(file))[Len(Records(file))], Last(appended))

\* Two overlapping calls both returned True and the file holds one record.
C13_Witness ==
    /\ overlapped
    /\ AllReturnedTrue
    /\ \A p \in Procs : writers[p].ret = "True"
    /\ Len(appended) = 2
    /\ appended[1].transcription # appended[2].transcription
    /\ file.kind = "json"
    /\ Len(Records(file)) = 1

\* C16 as claimed: a save_dream_to_history call that returns False leaves the
\* stored history as it was: load_dream_history gives the same records after
\* the call as before it, whichever step of the call failed.
C16_Original ==
    [][(app = "appv2" /\ saved # "False" /\ saved' = "False") =>
          load_dream_history(file', "ok").value = load_dream_history(file, "ok").value]_vars

-----------------------------------------------------------------------------
(* Properties of the credentials *)

\* The credential each stage's service asks for.
StageCredential(stage) ==
    CASE stage = "transcription" -> "GROQ_API_KEY"
      [] stage \in {"classification", "prompt"} -> "MISTRAL_API_KEY"
      [] stage = "image" -> "CLIPDROP_API_KEY"

\* The errors that say a credential is not configured.
ConfigurationErrors ==
    {GroqKeyError, MistralKeyError, ClipdropKeyError} \cup {o.exc : o \in {k \in MistralNullKeyV2 : ~k.sent}}

\* C12 as claimed: a stage whose credential is absent fails with a
\* configuration error before it issues a network call, and no request is
\* ever sent to a remote service without its credential.
C12_Original ==
    /\ \A c \in calls : c.key
    /\ \A i \in 1..Len(trace) :
          ~HasKey(StageCredential(trace[i].stage)) =>
              /\ ~trace[i].ok
              /\ trace[i].exc \in ConfigurationErrors

====
